---------------------------- MODULE Spec2Model ----------------------------
(***************************************************************************)
(* Model of api/proxy.js: an edge function that forwards one inbound       *)
(* request to the URL named by its `target` query parameter and relays the *)
(* response under a byte limit (MAX_BYTES) and a deadline                  *)
(* (MAX_DURATION_MS).                                                      *)
(*                                                                         *)
(* handler runs on a single-threaded event loop: code between two awaits   *)
(* is one atomic step.  handler has exactly one await (the fetch), so the  *)
(* steps are: the code up to the fetch call, the continuation after the    *)
(* fetch settles, the timer callback, and the stream callbacks of the      *)
(* relay (transform, close, abort).                                        *)
(***************************************************************************)
EXTENDS Integers, Sequences, FiniteSets, TLC

(***************************************************************************)
(* Program constants (proxy.js:8, proxy.js:12).                            *)
(***************************************************************************)
MAX_BYTES == 10 * 1024 * 1024

MAX_DURATION_MS == 15000

(***************************************************************************)
(* Bounds of the model.                                                    *)
(***************************************************************************)
\* most chunks one upstream body delivers
MaxChunks == 3

\* most non-target parameters in an inbound query
MaxParams == 2

\* the requests of the model; Spec runs r1 alone
Reqs == {"r1", "r2"}

(***************************************************************************)
(* Strings.  A string the URL parser reads is given with its syntax by     *)
(* Syntax: scheme (text before the first ":"), whether "//" follows,       *)
(* the authority, the path text and the query text as name/value pairs.    *)
(***************************************************************************)
Pair(k, v) == [key |-> k, value |-> v]

NoSyntax == [scheme |-> "", slashes |-> FALSE, host |-> "", path |-> "", query |-> <<>>]

Syntax(s) ==
  CASE s = "https://example.com/bar?x=0&y=0" ->
         [scheme |-> "https", slashes |-> TRUE, host |-> "example.com", path |-> "/bar",
          query |-> <<Pair("x", "0"), Pair("y", "0")>>]
    [] s = "https://example.com:8443" ->
         [scheme |-> "https", slashes |-> TRUE, host |-> "example.com:8443", path |-> "",
          query |-> <<>>]
    [] s = "http://origin.test/?x=0&x=9&target=t" ->
         [scheme |-> "http", slashes |-> TRUE, host |-> "origin.test", path |-> "/",
          query |-> <<Pair("x", "0"), Pair("x", "9"), Pair("target", "t")>>]
    [] s = "data:text/plain,hi" ->
         [scheme |-> "data", slashes |-> FALSE, host |-> "", path |-> "text/plain,hi",
          query |-> <<>>]
    [] s = "example.com/bar" ->
         [scheme |-> "", slashes |-> FALSE, host |-> "", path |-> "example.com/bar",
          query |-> <<>>]
    [] s = "https://" ->
         [scheme |-> "https", slashes |-> TRUE, host |-> "", path |-> "", query |-> <<>>]
    [] OTHER -> NoSyntax

\* the values the `target` parameter takes in the model
TargetTexts ==
  {"", "example.com/bar", "https://", "https://example.com/bar?x=0&y=0",
   "https://example.com:8443", "http://origin.test/?x=0&x=9&target=t",
   "data:text/plain,hi"}

(***************************************************************************)
(* new URL(text): the WHATWG URL parser without a base URL.                *)
(*  - no scheme: the text is a relative reference, parsing fails;          *)
(*  - special scheme (http, https): an empty host fails, an empty path     *)
(*    becomes "/";                                                         *)
(*  - any other scheme not followed by "//": the URL has an opaque path.   *)
(***************************************************************************)
Failure == [ok |-> FALSE]

IsSpecial(scheme) == scheme \in {"http", "https"}

\* new URL(text, req.url): a text without scheme resolves against the base
ParseURLWithBase(s) ==
  LET t == Syntax(s) IN
  IF t.scheme = ""
  THEN [ok |-> TRUE, scheme |-> "https", host |-> "proxy.example", path |-> t.path,
        query |-> t.query, opaque |-> FALSE]
  ELSE IF IsSpecial(t.scheme)
       THEN IF t.host = "" THEN Failure
            ELSE [ok |-> TRUE, scheme |-> t.scheme, host |-> t.host,
                  path |-> IF t.path = "" THEN "/" ELSE t.path,
                  query |-> t.query, opaque |-> FALSE]
       ELSE [ok |-> TRUE, scheme |-> t.scheme,
             host |-> IF t.slashes THEN t.host ELSE "",
             path |-> t.path, query |-> t.query, opaque |-> ~t.slashes]

ParseURL(s) ==
  LET t == Syntax(s) IN
  IF t.scheme = "" THEN Failure
  ELSE IF IsSpecial(t.scheme)
       THEN IF t.host = "" THEN Failure
            ELSE [ok |-> TRUE, scheme |-> t.scheme, host |-> t.host,
                  path |-> IF t.path = "" THEN "/" ELSE t.path,
                  query |-> t.query, opaque |-> FALSE]
       ELSE [ok |-> TRUE, scheme |-> t.scheme,
             host |-> IF t.slashes THEN t.host ELSE "",
             path |-> t.path, query |-> t.query, opaque |-> ~t.slashes]

\* targetUrl.pathname = p: the setter returns at once on an opaque path
SetPathname(u, p) == IF u.opaque THEN u ELSE [u EXCEPT !.path = p]

(***************************************************************************)
(* URLSearchParams.                                                        *)
(***************************************************************************)
RECURSIVE RemoveKey(_, _)
RemoveKey(q, k) ==
  IF q = <<>> THEN <<>>
  ELSE IF Head(q).key = k THEN RemoveKey(Tail(q), k)
       ELSE <<Head(q)>> \o RemoveKey(Tail(q), k)

RECURSIVE SearchParamsSet(_, _, _)
\* set(k, v): the first pair named k takes v, the other pairs named k go;
\* no pair named k: append
SearchParamsSet(q, k, v) ==
  IF q = <<>> THEN <<Pair(k, v)>>
  ELSE IF Head(q).key = k THEN <<Pair(k, v)>> \o RemoveKey(Tail(q), k)
       ELSE <<Head(q)>> \o SearchParamsSet(Tail(q), k, v)

\* what get(k) returns when no pair is named k
Null == "<null>"

RECURSIVE SearchParamsGet(_, _)
\* get(k): the first value named k, or null
SearchParamsGet(q, k) ==
  IF q = <<>> THEN Null
  ELSE IF Head(q).key = k THEN Head(q).value
       ELSE SearchParamsGet(Tail(q), k)

RECURSIVE MergeQuery(_, _)
\* url.searchParams.forEach: in order, every pair not named target is set
MergeQuery(tq, inq) ==
  IF inq = <<>> THEN tq
  ELSE IF Head(inq).key # "target"
       THEN MergeQuery(SearchParamsSet(tq, Head(inq).key, Head(inq).value), Tail(inq))
       ELSE MergeQuery(tq, Tail(inq))

(***************************************************************************)
(* Headers: a map from lower-case names to values.                         *)
(***************************************************************************)
NoHeaders == [n \in {} |-> ""]

Lower(n) == IF n = "Host" THEN "host" ELSE n

HeadersSet(h, n, v) == [m \in DOMAIN h \cup {Lower(n)} |-> IF m = Lower(n) THEN v ELSE h[m]]

HeadersDelete(h, n) == [m \in DOMAIN h \ {Lower(n)} |-> h[m]]

\* headers = req.headers: no new object
SameHeaders(heap, init) == [ref |-> init, heap |-> heap]

\* new Headers(init) on a heap of Headers objects: a new object that starts
\* with init's entries
NewHeaders(heap, init) ==
  [ref |-> "headers",
   heap |-> [o \in DOMAIN heap \cup {"headers"} |->
               IF o = "headers" THEN heap[init] ELSE heap[o]]]

\* proxy.js:38-41; reqHeaders is req.headers after these lines
BuildHeaders(h, targetUrl) ==
  LET new == NewHeaders([o \in {"req.headers"} |-> h], "req.headers")
      headers == new.ref
      h1 == [new.heap EXCEPT ![headers] = HeadersSet(@, "Host", targetUrl.host)]
      h2 == [h1 EXCEPT ![headers] = HeadersDelete(@, "x-forwarded-host")]
      h3 == [h2 EXCEPT ![headers] = HeadersDelete(@, "x-vercel-id")]
  IN [headers |-> h3[headers], reqHeaders |-> h3["req.headers"]]

\* proxy.js:25-35
BuildTargetUrl(targetUrl, url) ==
  LET u == SetPathname(targetUrl, url.path) IN
  [u EXCEPT !.query = MergeQuery(u.query, url.query)]

(***************************************************************************)
(* Inbound requests.  req.url is parsed by the platform before handler     *)
(* runs: path is url.pathname, query is url.searchParams in order.         *)
(***************************************************************************)
Paths == {"/", "/foo"}

HeaderNames == {"host", "x-forwarded-host", "x-vercel-id", "accept"}

InboundHeaderValue(n) ==
  CASE n = "host" -> "proxy.example"
    [] n = "x-forwarded-host" -> "proxy.example"
    [] n = "x-vercel-id" -> "fra1::abc"
    [] OTHER -> "text/html"

HeadersOf(names) == [n \in names |-> InboundHeaderValue(n)]

PassPairs == {Pair(k, v) : k \in {"x", "y"}, v \in {"1", "2"}}

TargetPairs == {Pair("target", t) : t \in TargetTexts}

CountKey(q, k) == Cardinality({i \in DOMAIN q : q[i].key = k})

\* queries with at most one target parameter and at most n other parameters
Queries(n) ==
  {q \in UNION {[1..m -> PassPairs \cup TargetPairs] : m \in 0..(n + 1)} :
     /\ CountKey(q, "target") <= 1
     /\ Len(q) - CountKey(q, "target") <= n}

Requests(n, paths, headerSets) ==
  {[path |-> p, query |-> q, headers |-> HeadersOf(hs)] :
     p \in paths, q \in Queries(n), hs \in headerSets}

\* every inbound request within the bounds
AllRequests == Requests(MaxParams, Paths, SUBSET HeaderNames)

\* the inbound requests of the forwarding life cycle: one path, every header,
\* at most one parameter beside target
FewRequests == Requests(1, {"/foo"}, {HeaderNames})

\* the request of a request slot that is never run
IdleRequest == [path |-> "/", query |-> <<>>, headers |-> NoHeaders]

(***************************************************************************)
(* Responses and errors.                                                   *)
(***************************************************************************)
RelayBody == "<readable>"

MissingTargetMsg == "Error: Missing \"target\" query parameter."

TimeoutMsg == "Connection Timed Out (Policy Limit)"

Response(body, status, headers) == [status |-> status, headers |-> headers, body |-> body]

NoResponse == Response(<<>>, 0, NoHeaders)

Error(name, message) == [name |-> name, message |-> message]

InvalidURL == Error("TypeError", "Invalid URL")

FetchFailed == Error("TypeError", "fetch failed")

\* the rejection of a fetch whose signal was aborted by controller.abort()
DeadlineAbort == Error("AbortError", "This operation was aborted")

\* an abort the transport raises by itself, the signal not aborted
TransportAbort == Error("AbortError", "The operation was aborted")

NetworkFaults == {FetchFailed, TransportAbort}

NullBodyStatus == {101, 204, 205, 304}

(***************************************************************************)
(* new Response(body, {status, headers}) with a body that is not null      *)
(* (Fetch standard, "initialize a response"): a status outside 200..599    *)
(* is a RangeError, a null body status with a body is a TypeError.         *)
(***************************************************************************)
NewResponse(body, status, headers) ==
  IF status < 200 \/ status > 599
  THEN [ok |-> FALSE, error |-> Error("RangeError", "status must be in 200..599")]
  ELSE IF status \in NullBodyStatus
       THEN [ok |-> FALSE,
             error |-> Error("TypeError", "Response with null body status cannot have body")]
       ELSE [ok |-> TRUE, response |-> Response(<<body>>, status, headers)]

\* if (targetParam === "")
MissingTargetEmptyOnly(targetParam) == targetParam = ""

\* proxy.js:20-22
MissingTarget(targetParam) == targetParam = Null \/ targetParam = ""

BadRequest == Response(<<MissingTargetMsg>>, 400, NoHeaders)

\* a catch block that reports every error by its message
CatchMessageOnly(e) ==
  [threw |-> FALSE,
   response |-> Response(<<"Proxy Blocked: ", e.message>>, 502, NoHeaders)]

\* a catch block that handles the AbortError and rethrows the rest
CatchRethrow(e) ==
  [threw |-> e.name # "AbortError",
   response |-> Response(<<"Proxy Blocked: ", TimeoutMsg>>, 502, NoHeaders)]

\* proxy.js:90-94: the catch block; what handler does with a caught error
Catch(e) ==
  [threw |-> FALSE,
   response |-> Response(<<"Proxy Blocked: ",
                           IF e.name = "AbortError" THEN TimeoutMsg ELSE e.message>>,
                         502, NoHeaders)]

(***************************************************************************)
(* Upstream responses.  fetch gives a null body to a response with a null  *)
(* body status (and to the response of a HEAD request, whatever its        *)
(* status).                                                                *)
(***************************************************************************)
UpstreamStatuses == {200, 204, 304, 404, 999}

UpstreamHeaders == {HeadersOf({}), [n \in {"content-type"} |-> "text/html"]}

UpstreamResponses ==
  {u \in [status : UpstreamStatuses, hasBody : BOOLEAN, headers : UpstreamHeaders] :
     u.status \in NullBodyStatus => ~u.hasBody}

NoUpstream == [status |-> 0, hasBody |-> FALSE, headers |-> NoHeaders]

ChunkSizes == {1, MAX_BYTES - 1, MAX_BYTES}

\* a transform that enqueues the chunk before it checks the counter
TransformEnqueueFirst(bytes, len) ==
  LET n == bytes + len IN
  [downloadedBytes |-> n, error |-> n > MAX_BYTES, enqueue |-> <<len>>]

\* a transform that compares each chunk, not the running total, with the limit
TransformPerChunk(bytes, len) ==
  LET n == bytes + len IN
  [downloadedBytes |-> n,
   error |-> len > MAX_BYTES,
   enqueue |-> IF len > MAX_BYTES THEN <<>> ELSE <<len>>]

\* proxy.js:63-75: transform(chunk, controller) on a counter of `bytes`
Transform(bytes, len) ==
  LET n == bytes + len IN
  [downloadedBytes |-> n,
   error |-> n > MAX_BYTES,
   enqueue |-> IF n > MAX_BYTES THEN <<>> ELSE <<len>>]

\* response.body.pipeTo(writable) without .catch
PipeRejectionUncaught == FALSE

\* proxy.js:81: the rejection of pipeTo has a handler
PipeRejectionCaught == TRUE

\* no clearTimeout: the timer stays as it is
KeepTimeout(t) == t

\* a counter at module level: every call of handler uses the same one
SharedCounter(r) == "r1"

\* proxy.js:61: downloadedBytes is declared inside handler, one per call
CounterOf(r) == r

\* clearTimeout(timeoutId)
ClearTimeout(t) == IF t = "armed" THEN "cleared" ELSE t

(***************************************************************************)
(* State, per request.                                                     *)
(***************************************************************************)
VARIABLES
  req,              \* the inbound request
  pc,               \* "Idle", "InFlight" (awaiting fetch), "Returned", "Threw"
  result,           \* the response handler returned
  cause,            \* the path that produced result
  fetched,          \* the arguments of each fetch call, in order
  timer,            \* "unset", "armed", "cleared", "fired"
  aborted,          \* controller.signal.aborted
  upstream,         \* the response fetch resolved with
  upBody,           \* response.body: "none", "open", "ended", "errored", "cancelled"
  pipe,             \* the pipeTo promise: "none", "active", "fulfilled", "rejected"
  unhandled,        \* a rejection no handler took
  queued,           \* lengths of the chunks pipeTo has read and transform has not seen
  sent,             \* lengths of the chunks transform was called with
  downloadedBytes,  \* the counter of the transform
  relay,            \* readable: "none", "open", "closed", "errored"
  pendingRead,      \* the caller has a read pending on readable
  delivered         \* lengths of the chunks the caller has read

vars == <<req, pc, result, cause, fetched, timer, aborted, upstream, upBody, pipe,
          unhandled, queued, sent, downloadedBytes, relay, pendingRead, delivered>>

streamVars == <<upBody, pipe, unhandled, queued, sent, downloadedBytes, relay, pendingRead,
                delivered>>

\* the requests in `active` take any inbound request of `requests`
InitWith(requests, active) ==
  /\ \E f \in [active -> requests] :
       req = [r \in Reqs |-> IF r \in active THEN f[r] ELSE IdleRequest]
  /\ pc = [r \in Reqs |-> "Idle"]
  /\ result = [r \in Reqs |-> NoResponse]
  /\ cause = [r \in Reqs |-> "none"]
  /\ fetched = [r \in Reqs |-> <<>>]
  /\ timer = [r \in Reqs |-> "unset"]
  /\ aborted = [r \in Reqs |-> FALSE]
  /\ upstream = [r \in Reqs |-> NoUpstream]
  /\ upBody = [r \in Reqs |-> "none"]
  /\ pipe = [r \in Reqs |-> "none"]
  /\ unhandled = [r \in Reqs |-> FALSE]
  /\ queued = [r \in Reqs |-> <<>>]
  /\ sent = [r \in Reqs |-> <<>>]
  /\ downloadedBytes = [r \in Reqs |-> 0]
  /\ relay = [r \in Reqs |-> "none"]
  /\ pendingRead = [r \in Reqs |-> FALSE]
  /\ delivered = [r \in Reqs |-> <<>>]

\* a handler that starts over after a failed upstream call
FinishRetry(r, o, path) ==
  /\ pc' = [pc EXCEPT ![r] = IF path \in {"fetch", "deadline"} THEN "Idle"
                              ELSE IF o.threw THEN "Threw" ELSE "Returned"]
  /\ result' = [result EXCEPT ![r] = IF o.threw THEN NoResponse ELSE o.response]
  /\ cause' = [cause EXCEPT ![r] = path]

\* handler returns (or throws) by `path` with outcome o of Catch's shape
Finish(r, o, path) ==
  /\ pc' = [pc EXCEPT ![r] = IF o.threw THEN "Threw" ELSE "Returned"]
  /\ result' = [result EXCEPT ![r] = IF o.threw THEN NoResponse ELSE o.response]
  /\ cause' = [cause EXCEPT ![r] = path]

Return(resp) == [threw |-> FALSE, response |-> resp]

(***************************************************************************)
(* proxy.js:16-49: handler up to the call of fetch.                        *)
(***************************************************************************)
HandlerStart(r) ==
  /\ pc[r] = "Idle"
  /\ LET url == req[r]
         targetParam == SearchParamsGet(url.query, "target")
         parsed == ParseURL(targetParam)
     IN IF MissingTarget(targetParam)
        THEN /\ Finish(r, Return(BadRequest), "missing")
             /\ UNCHANGED <<req, fetched, timer>>
        ELSE IF ~parsed.ok
        THEN /\ Finish(r, Catch(InvalidURL), "setup")
             /\ UNCHANGED <<req, fetched, timer>>
        ELSE LET targetUrl == BuildTargetUrl(parsed, url)
                 headers == BuildHeaders(url.headers, targetUrl)
             IN /\ req' = [req EXCEPT ![r].headers = headers.reqHeaders]
                /\ timer' = [timer EXCEPT ![r] = "armed"]
                /\ fetched' = [fetched EXCEPT
                                 ![r] = Append(@, [url |-> targetUrl,
                                                   headers |-> headers.headers])]
                /\ pc' = [pc EXCEPT ![r] = "InFlight"]
                /\ UNCHANGED <<result, cause>>
  /\ UNCHANGED <<aborted, upstream, streamVars>>

\* a timer callback whose controller is not the signal of the fetch: the
\* fetch goes on
TimerFireNoAbort(r) ==
  /\ timer[r] = "armed"
  /\ timer' = [timer EXCEPT ![r] = "fired"]
  /\ aborted' = [aborted EXCEPT ![r] = TRUE]
  /\ UNCHANGED <<pc, result, cause>>
  /\ UNCHANGED <<req, fetched, upstream, streamVars>>

(***************************************************************************)
(* proxy.js:45: the timer callback, controller.abort().  Aborting the      *)
(* signal of a pending fetch rejects it with an AbortError; the            *)
(* continuation of the await runs before any other task: proxy.js:90-94.   *)
(***************************************************************************)
TimerFire(r) ==
  /\ timer[r] = "armed"
  /\ timer' = [timer EXCEPT ![r] = "fired"]
  /\ aborted' = [aborted EXCEPT ![r] = TRUE]
  /\ IF pc[r] = "InFlight"
     THEN Finish(r, Catch(DeadlineAbort), "deadline")
     ELSE UNCHANGED <<pc, result, cause>>
  /\ UNCHANGED <<req, fetched, upstream, streamVars>>

(***************************************************************************)
(* proxy.js:49-55, 90-94: fetch rejects by itself (network fault, refused  *)
(* scheme, abort raised by the transport).                                 *)
(***************************************************************************)
FetchReject(r) ==
  /\ pc[r] = "InFlight"
  /\ \E e \in NetworkFaults : Finish(r, Catch(e), "fetch")
  /\ UNCHANGED <<req, fetched, timer, aborted, upstream, streamVars>>

(***************************************************************************)
(* proxy.js:49-88: fetch resolves with response `up`; the rest of the try  *)
(* block runs in one step.  The Response constructor may throw: 90-94.     *)
(***************************************************************************)
FetchResolve(r) ==
  /\ pc[r] = "InFlight"
  /\ \E up \in UpstreamResponses :
       LET made == NewResponse(RelayBody, up.status, up.headers) IN
       /\ upstream' = [upstream EXCEPT ![r] = up]
       /\ timer' = [timer EXCEPT ![r] = ClearTimeout(@)]
       /\ downloadedBytes' = [downloadedBytes EXCEPT ![CounterOf(r)] = 0]
       /\ relay' = [relay EXCEPT ![r] = "open"]
       /\ upBody' = [upBody EXCEPT ![r] = IF up.hasBody THEN "open" ELSE "none"]
       /\ pipe' = [pipe EXCEPT ![r] = IF up.hasBody THEN "active" ELSE "none"]
       /\ IF made.ok
          THEN Finish(r, Return(made.response), "upstream")
          ELSE Finish(r, Catch(made.error), "construct")
  /\ UNCHANGED <<req, fetched, aborted, unhandled, queued, sent, pendingRead, delivered>>

\* the caller holds readable: handler returned the Response made of it
CallerHasRelay(r) == pc[r] = "Returned" /\ result[r].body = <<RelayBody>>

(***************************************************************************)
(* The caller reads the body of the response: a read request on readable.  *)
(* readable has high water mark 0, so only a pending read makes it pull,   *)
(* and only a pull lets the next write reach transform.                    *)
(***************************************************************************)
CallerRead(r) ==
  /\ CallerHasRelay(r)
  /\ relay[r] = "open"
  /\ ~pendingRead[r]
  /\ pendingRead' = [pendingRead EXCEPT ![r] = TRUE]
  /\ UNCHANGED <<req, pc, result, cause, fetched, timer, aborted, upstream, upBody, pipe,
                 unhandled, queued, sent, downloadedBytes, relay, delivered>>

\* the pipeTo promise rejects: proxy.js:81
PipeRejects(r) ==
  /\ pipe' = [pipe EXCEPT ![r] = "rejected"]
  /\ unhandled' = [unhandled EXCEPT ![r] = @ \/ ~PipeRejectionCaught]

\* pipeTo(writable, {preventCancel: true}): response.body is left as it is
BodyLeftOpen == "open"

\* proxy.js:81: pipeTo(writable) takes no options, so an errored writable
\* makes it cancel response.body
BodyAfterDestError == "cancelled"

(***************************************************************************)
(* proxy.js:81: pipeTo reads the next chunk of response.body and writes it *)
(* to writable.  writable has high water mark 1: pipeTo reads no further   *)
(* chunk while one waits for transform.                                    *)
(***************************************************************************)
PipeRead(r) ==
  /\ pipe[r] = "active"
  /\ upBody[r] = "open"
  /\ queued[r] = <<>>
  /\ Len(sent[r]) < MaxChunks
  /\ \E len \in ChunkSizes : queued' = [queued EXCEPT ![r] = <<len>>]
  /\ UNCHANGED <<req, pc, result, cause, fetched, timer, aborted, upstream, upBody, pipe,
                 unhandled, sent, downloadedBytes, relay, pendingRead, delivered>>

(***************************************************************************)
(* proxy.js:63-75, 81: transform runs on the written chunk once readable   *)
(* has pulled.  An enqueued chunk goes to the pending read.                *)
(* controller.error errors readable and writable; pipeTo then cancels      *)
(* response.body and rejects.                                              *)
(***************************************************************************)
TransformChunk(r) ==
  /\ pipe[r] = "active"
  /\ relay[r] = "open"
  /\ pendingRead[r]
  /\ queued[r] # <<>>
  /\ LET len == Head(queued[r])
         t == Transform(downloadedBytes[CounterOf(r)], len)
     IN /\ queued' = [queued EXCEPT ![r] = Tail(@)]
        /\ sent' = [sent EXCEPT ![r] = Append(@, len)]
        /\ downloadedBytes' = [downloadedBytes EXCEPT ![CounterOf(r)] = t.downloadedBytes]
        /\ pendingRead' = [pendingRead EXCEPT ![r] = FALSE]
        /\ delivered' = [delivered EXCEPT ![r] = @ \o t.enqueue]
        /\ IF t.error
           THEN /\ relay' = [relay EXCEPT ![r] = "errored"]
                /\ upBody' = [upBody EXCEPT ![r] = IF @ = "open" THEN BodyAfterDestError ELSE @]
                /\ PipeRejects(r)
           ELSE UNCHANGED <<relay, upBody, pipe, unhandled>>
  /\ UNCHANGED <<req, pc, result, cause, fetched, timer, aborted, upstream>>

(***************************************************************************)
(* proxy.js:81: response.body ends; pipeTo closes writable once the chunks  *)
(* it has read are written, which closes readable, and fulfils.            *)
(***************************************************************************)
UpstreamEnd(r) ==
  /\ pipe[r] = "active"
  /\ upBody[r] = "open"
  /\ queued[r] = <<>>
  /\ upBody' = [upBody EXCEPT ![r] = "ended"]
  /\ relay' = [relay EXCEPT ![r] = "closed"]
  /\ pipe' = [pipe EXCEPT ![r] = "fulfilled"]
  /\ pendingRead' = [pendingRead EXCEPT ![r] = FALSE]
  /\ UNCHANGED <<req, pc, result, cause, fetched, timer, aborted, upstream, unhandled, queued,
                 sent, downloadedBytes, delivered>>

(***************************************************************************)
(* proxy.js:81: response.body errors; pipeTo aborts writable once the      *)
(* chunks it has read are written, which errors readable, and rejects.     *)
(***************************************************************************)
UpstreamError(r) ==
  /\ pipe[r] = "active"
  /\ upBody[r] = "open"
  /\ queued[r] = <<>>
  /\ upBody' = [upBody EXCEPT ![r] = "errored"]
  /\ relay' = [relay EXCEPT ![r] = "errored"]
  /\ pendingRead' = [pendingRead EXCEPT ![r] = FALSE]
  /\ PipeRejects(r)
  /\ UNCHANGED <<req, pc, result, cause, fetched, timer, aborted, upstream, queued, sent,
                 downloadedBytes, delivered>>

Step(r) ==
  \/ HandlerStart(r)
  \/ TimerFire(r)
  \/ FetchReject(r)
  \/ FetchResolve(r)
  \/ CallerRead(r)
  \/ PipeRead(r)
  \/ TransformChunk(r)
  \/ UpstreamEnd(r)
  \/ UpstreamError(r)

(***************************************************************************)
(* Spec: the life cycle of one request.                                    *)
(***************************************************************************)
Init == InitWith(FewRequests, {"r1"})

Next == Step("r1")

Spec == Init /\ [][Next]_vars

(***************************************************************************)
(* SpecLive: Spec with the scheduling the platform gives: it calls handler *)
(* for a request it has accepted, and the event loop runs the callback of  *)
(* an armed timer when its delay has passed.  Nothing is assumed of the    *)
(* upstream or of the caller.                                              *)
(***************************************************************************)
SpecLive == Init /\ [][Next]_vars /\ WF_vars(HandlerStart("r1")) /\ WF_vars(TimerFire("r1"))

(***************************************************************************)
(* SpecBuild: the request builder on every inbound request of the bounds.  *)
(***************************************************************************)
InitBuild == InitWith(AllRequests, {"r1"})

NextBuild == HandlerStart("r1")

SpecBuild == InitBuild /\ [][NextBuild]_vars

(***************************************************************************)
(* SpecConc: two requests in flight at once, their steps interleaved.      *)
(***************************************************************************)
ConcRequests ==
  {q \in Requests(0, {"/foo"}, {HeaderNames}) :
     SearchParamsGet(q.query, "target") \in {"https://example.com:8443", "data:text/plain,hi"}}

InitConc == InitWith(ConcRequests, Reqs)

NextConc == \E r \in Reqs : Step(r)

SpecConc == InitConc /\ [][NextConc]_vars

(***************************************************************************)
(* Vocabulary of the properties.                                           *)
(***************************************************************************)
\* the inbound query names target
HasTarget(r) == \E i \in DOMAIN req[r].query : req[r].query[i].key = "target"

\* the value of the first inbound target parameter
TargetText(r) == req[r].query[CHOOSE i \in DOMAIN req[r].query :
                                /\ req[r].query[i].key = "target"
                                /\ \A j \in 1..(i - 1) : req[r].query[j].key # "target"].value

\* the text is no absolute URL: it has no scheme, or a special scheme and no host
Unparsable(s) ==
  \/ Syntax(s).scheme = ""
  \/ Syntax(s).scheme \in {"http", "https"} /\ Syntax(s).host = ""

Started(r) == pc[r] # "Idle"

RECURSIVE Sum(_)
Sum(q) == IF q = <<>> THEN 0 ELSE Head(q) + Sum(Tail(q))

Prefix(q, n) == SubSeq(q, 1, n)

\* C1: a request whose query has no target parameter gets status 400, and no
\* fetch is issued for it, in any state after handler ran.
C1_MissingTargetIs400 ==
  \A r \in Reqs :
    (Started(r) /\ ~HasTarget(r)) =>
      /\ pc[r] = "Returned"
      /\ result[r].status = 400
      /\ fetched[r] = <<>>
      /\ timer[r] = "unset"

C1_Witness ==
  \E r \in Reqs : Started(r) /\ ~HasTarget(r) /\ req[r].query # <<>>

\* C2 as stated: every target value that does not parse as an absolute URL,
\* the empty string included, gets status 502 and no fetch.
C2_UnparsableIs502 ==
  \A r \in Reqs :
    (Started(r) /\ HasTarget(r) /\ Unparsable(TargetText(r))) =>
      /\ pc[r] = "Returned"
      /\ result[r].status = 502
      /\ fetched[r] = <<>>

\* C2 amended: every non-empty target value that does not parse as an absolute
\* URL gets status 502 and no fetch; the empty target value gets status 400 and
\* no fetch.
C2_NonEmptyUnparsableIs502 ==
  \A r \in Reqs :
    (Started(r) /\ HasTarget(r) /\ Unparsable(TargetText(r))) =>
      /\ pc[r] = "Returned"
      /\ result[r].status = IF TargetText(r) = "" THEN 400 ELSE 502
      /\ fetched[r] = <<>>

C2_Witness ==
  \E r \in Reqs :
    /\ Started(r) /\ HasTarget(r)
    /\ TargetText(r) # "" /\ Unparsable(TargetText(r))
    /\ result[r].status = 502

\* C3: once fetch has resolved with a response, handler returns the upstream's
\* status and headers unchanged, with the relay stream as body, whatever the
\* upstream status and with or without an upstream body.
C3_UpstreamStatusAndHeadersKept ==
  \A r \in Reqs :
    upstream[r] # NoUpstream =>
      /\ pc[r] = "Returned"
      /\ result[r].status = upstream[r].status
      /\ result[r].headers = upstream[r].headers
      /\ result[r].body = <<RelayBody>>

\* C4: an upstream body that ended after N <= MAX_BYTES bytes was relayed whole
\* and in order, the relay closed without error, and the response status is the
\* upstream's.
C4_SmallBodyRelayedWhole ==
  \A r \in Reqs :
    (upBody[r] = "ended" /\ Sum(sent[r]) <= MAX_BYTES) =>
      /\ delivered[r] = sent[r]
      /\ relay[r] = "closed"
      /\ pc[r] = "Returned"
      /\ result[r].status = upstream[r].status

\* the least n such that the first n chunks exceed MAX_BYTES
Crossing(q) == CHOOSE n \in 1..Len(q) :
                 /\ Sum(Prefix(q, n)) > MAX_BYTES
                 /\ \A m \in 1..(n - 1) : Sum(Prefix(q, m)) <= MAX_BYTES

\* C5: when the chunks of the upstream body exceed MAX_BYTES, the caller has
\* received exactly the chunks before the first chunk that made the total
\* exceed it, the relay stream is errored, and nothing escaped: handler did not
\* throw and no rejection is unhandled.
C5_LargeBodyCutAtChunk ==
  \A r \in Reqs :
    Sum(sent[r]) > MAX_BYTES =>
      /\ delivered[r] = Prefix(sent[r], Crossing(sent[r]) - 1)
      /\ Crossing(sent[r]) = Len(sent[r])
      /\ relay[r] = "errored"
      /\ pipe[r] = "rejected"
      /\ ~unhandled[r]
      /\ pc[r] = "Returned"

C5_Witness ==
  \E r \in Reqs :
    /\ Sum(sent[r]) > MAX_BYTES
    /\ Len(delivered[r]) = 2
    /\ Sum(delivered[r]) = MAX_BYTES
    /\ relay[r] = "errored"

\* C6: when the deadline timer fires while handler still awaits fetch, the
\* fetch is aborted and handler returns status 502 with the body
\* "Proxy Blocked: Connection Timed Out (Policy Limit)".
C6_DeadlineIs502Timeout ==
  [][\A r \in Reqs :
       (pc[r] = "InFlight" /\ timer[r] = "armed" /\ timer'[r] = "fired") =>
         /\ aborted'[r]
         /\ pc'[r] = "Returned"
         /\ result'[r].status = 502
         /\ result'[r].body = <<"Proxy Blocked: ", "Connection Timed Out (Policy Limit)">>]_vars

C6_Witness ==
  \E r \in Reqs :
    /\ cause[r] = "deadline" /\ timer[r] = "fired" /\ aborted[r]
    /\ upstream[r] = NoUpstream
    /\ result[r].status = 502

\* the paths on which handler caught a fault
FaultPaths == {"setup", "deadline", "fetch", "construct"}

\* C7: handler never throws: once it has left the await it has returned a
\* response whose status is 400, 502 or the upstream's, and every fault it met
\* other than a missing target is reported as 502.
C7_HandlerNeverThrows ==
  \A r \in Reqs :
    /\ pc[r] \in {"Idle", "InFlight", "Returned"}
    /\ pc[r] = "Returned" =>
         /\ result[r].status \in {400, 502, upstream[r].status}
         /\ cause[r] \in FaultPaths => result[r].status = 502
         /\ cause[r] = "missing" => result[r].status = 400
         /\ cause[r] = "upstream" => result[r].status = upstream[r].status
    /\ ~unhandled[r]

C7_Witness ==
  \E r \in Reqs :
    pc[r] = "Returned" /\ cause[r] = "fetch" /\ result[r].body[2] = "fetch failed"

\* the last value an inbound query gives to key k
LastValue(q, k) == q[CHOOSE i \in DOMAIN q :
                       q[i].key = k /\ \A j \in (i + 1)..Len(q) : q[j].key # k].value

\* the pairs of q named k, in order
Named(q, k) == SelectSeq(q, LAMBDA p : p.key = k)

QueryKeys == {"x", "y", "target"}

\* C8: for every request with a target that parses, the forwarded URL has the
\* target's scheme and authority and the inbound path, and its query is the
\* target's own query with each inbound parameter other than target set on
\* top: such a key has one pair, holding its last inbound value; any other key
\* keeps the target's own pairs; the inbound target is not forwarded.
C8_ForwardedUrl ==
  \A r \in Reqs :
    fetched[r] # <<>> =>
      LET f == fetched[r][1].url
          t == Syntax(TargetText(r))
          inbound == {req[r].query[i].key : i \in DOMAIN req[r].query} \ {"target"}
      IN /\ f.scheme = t.scheme
         /\ f.host = t.host
         /\ f.path = req[r].path
         /\ \A k \in inbound : Named(f.query, k) = <<Pair(k, LastValue(req[r].query, k))>>
         /\ \A k \in QueryKeys \ inbound : Named(f.query, k) = Named(t.query, k)

\* C9: the headers passed to fetch are the inbound headers except that host is
\* the forwarded URL's authority and x-forwarded-host and x-vercel-id are
\* absent; and no step changes the inbound request.
C9_HeadersRewritten ==
  /\ [](\A r \in Reqs :
          fetched[r] # <<>> =>
            LET out == fetched[r][1].headers
                in == req[r].headers
            IN /\ DOMAIN out = (DOMAIN in \cup {"host"}) \ {"x-forwarded-host", "x-vercel-id"}
               /\ out["host"] = fetched[r][1].url.host
               /\ \A n \in DOMAIN out \ {"host"} : out[n] = in[n])
  /\ [][req' = req]_vars

C9_Witness ==
  \E r \in Reqs :
    /\ fetched[r] # <<>>
    /\ DOMAIN req[r].headers = HeaderNames
    /\ fetched[r][1].headers["host"] = "example.com:8443"
    /\ fetched[r][1].headers["accept"] = "text/html"

\* C10: a 502 response carries the timeout message exactly when the deadline
\* of the request fired and aborted the fetch; any other fault is reported with
\* its own message.
C10_TimeoutMessageOnlyForDeadline ==
  \A r \in Reqs :
    (pc[r] = "Returned" /\ result[r].status = 502) =>
      (result[r].body = <<"Proxy Blocked: ", TimeoutMsg>> <=> cause[r] = "deadline")

C12_RelayedBytesBounded ==
  /\ [](\A r \in Reqs : Sum(delivered[r]) <= MAX_BYTES)
  /\ [][\A r \in Reqs :
          relay[r] = "errored" => (relay'[r] = "errored" /\ delivered'[r] = delivered[r])]_vars

C12_Witness ==
  \E r \in Reqs :
    /\ relay[r] = "errored" /\ Sum(sent[r]) > MAX_BYTES
    /\ Sum(delivered[r]) = MAX_BYTES

\* C13: after a size breach the upstream body is cancelled, pipeTo has
\* rejected into its handler (nothing is unhandled), and from then on no chunk
\* of that body is read or given to transform.
C13_BreachCancelsUpstream ==
  /\ [](\A r \in Reqs :
          Sum(sent[r]) > MAX_BYTES =>
            /\ upBody[r] = "cancelled"
            /\ pipe[r] = "rejected"
            /\ queued[r] = <<>>
            /\ ~unhandled[r])
  /\ [][\A r \in Reqs :
          upBody[r] = "cancelled" =>
            /\ upBody'[r] = "cancelled"
            /\ queued'[r] = queued[r]
            /\ sent'[r] = sent[r]]_vars

C13_Witness ==
  \E r \in Reqs :
    /\ upBody[r] = "cancelled" /\ pipe[r] = "rejected"
    /\ Len(sent[r]) = 2

\* C14: a request causes at most one fetch call, and once handler has
\* returned, by whatever path, no fetch call is added.
C14_SingleFetch ==
  /\ [](\A r \in Reqs : Len(fetched[r]) <= 1)
  /\ [][\A r \in Reqs :
          pc[r] = "Returned" => (pc'[r] = "Returned" /\ fetched'[r] = fetched[r])]_vars

C14_Witness ==
  \E r \in Reqs :
    /\ pc[r] = "Returned" /\ cause[r] = "fetch"
    /\ timer[r] = "fired"
    /\ Len(fetched[r]) = 1

\* everything the model holds for request r
View(r) == <<req[r], pc[r], result[r], cause[r], fetched[r], timer[r], aborted[r],
             upstream[r], upBody[r], pipe[r], unhandled[r], queued[r], sent[r],
             downloadedBytes[r], relay[r], pendingRead[r], delivered[r]>>

\* C15: with two requests interleaved, each request's byte counter is the sum
\* of its own chunks; a relay is cut only by its own chunks exceeding the limit
\* or its own upstream failing, and a signal is aborted only by its own timer;
\* a step of one request changes nothing of the other; and two equal requests
\* are forwarded with equal URL and headers.
C15_NoStateSharedAcrossRequests ==
  /\ [](\A r \in Reqs :
          /\ downloadedBytes[r] = Sum(sent[r])
          /\ relay[r] = "errored" => (upBody[r] = "errored" \/ Sum(sent[r]) > MAX_BYTES)
          /\ Sum(sent[r]) <= MAX_BYTES => delivered[r] = sent[r]
          /\ aborted[r] => timer[r] = "fired")
  /\ [](\A r, q \in Reqs :
          (req[r] = req[q] /\ fetched[r] # <<>> /\ fetched[q] # <<>>) =>
            fetched[r] = fetched[q])
  /\ [][\A r, q \in Reqs : (r # q /\ View(r)' # View(r)) => View(q)' = View(q)]_vars

C15_Witness ==
  /\ req["r1"] = req["r2"]
  /\ fetched["r1"] # <<>> /\ fetched["r2"] = fetched["r1"]
  /\ relay["r1"] = "errored" /\ Sum(sent["r1"]) > MAX_BYTES
  /\ relay["r2"] = "open" /\ Sum(delivered["r2"]) = MAX_BYTES
  /\ cause["r1"] = "upstream" /\ cause["r2"] = "upstream"

\* C16: when the upstream body fails after headers, the response handler
\* returned is untouched (a relayed response still has the upstream's status
\* and headers), the relay is errored after exactly the chunks relayed so far,
\* and the rejection of pipeTo is handled.
C16_MidStreamFaultCutsRelay ==
  /\ [](\A r \in Reqs :
          upBody[r] = "errored" =>
            /\ relay[r] = "errored"
            /\ delivered[r] = sent[r]
            /\ pipe[r] = "rejected"
            /\ ~unhandled[r]
            /\ pc[r] = "Returned"
            /\ cause[r] = "upstream" =>
                 /\ result[r].status = upstream[r].status
                 /\ result[r].headers = upstream[r].headers)
  /\ [][\A r \in Reqs :
          (upBody[r] = "open" /\ upBody'[r] = "errored") =>
            (result'[r] = result[r] /\ delivered'[r] = delivered[r])]_vars

C16_Witness ==
  \E r \in Reqs :
    /\ upBody[r] = "errored" /\ relay[r] = "errored"
    /\ cause[r] = "upstream" /\ result[r].status = 404
    /\ Len(delivered[r]) = 2

\* C17: once the upstream body has ended or failed, or the upstream response
\* has no body at all, the relay stream the caller holds is closed or errored.
C17_RelayTerminates ==
  \A r \in Reqs :
    (CallerHasRelay(r) /\ upBody[r] \in {"none", "ended", "errored", "cancelled"}) =>
      relay[r] \in {"closed", "errored"}

\* C18: under the scheduling of SpecLive every request gets a response: the
\* await of fetch always ends, by the upstream responding, by a fault or by
\* the deadline.
C18_EveryRequestAnswered ==
  /\ <>(pc["r1"] = "Returned")
  /\ (pc["r1"] = "InFlight") ~> (pc["r1"] = "Returned")

C18_Witness ==
  /\ pc["r1"] = "Returned" /\ cause["r1"] = "deadline"
  /\ fetched["r1"] # <<>>

\* C19: when handler has returned, by any path, the deadline timer of the
\* request is not armed.
C19_NoTimerArmedAfterReturn ==
  \A r \in Reqs : pc[r] = "Returned" => timer[r] # "armed"

=============================================================================
